---- MODULE Spec2Model ----
(***************************************************************************)
(* A model of the consulting-framework retriever (rag_system.py) and of    *)
(* the Streamlit front end that drives it (app.py).                        *)
(*                                                                         *)
(* The retriever delegates loading, splitting, embedding and search to     *)
(* langchain / Chroma.  Those calls are modelled by what the library does: *)
(*   - Chroma(persist_directory=...) opens the directory with              *)
(*     get_or_create_collection: a directory that does not exist yet is    *)
(*     created with an empty collection, and no error is raised;           *)
(*   - Chroma.from_documents(..., persist_directory=...) opens the same    *)
(*     collection the same way and ADDS the chunks under fresh ids;        *)
(*   - similarity_search returns min(k, size) entries, nearest first.      *)
(* A Chroma object is a client of the persisted collection, so a handle is *)
(* a reference to the directory: the entries live in chroma_db.            *)
(***************************************************************************)
EXTENDS Integers, Sequences, FiniteSets, TLC

VARIABLES
    kb,          \* the ./knowledge_base directory read by build
    chroma_db,   \* the ./chroma_db directory: the persisted collection
    vectordb,    \* vectordb[r]: the field self.vectordb of retriever r
    lifecycle,   \* history: what build/load attempts on r have come to
    cached,      \* st.cache_resource holds the result of load_rag_system
    firstRun,    \* history: the context printed by the first test_rag run
    last         \* the operation that ran last, with what it returned

vars == <<kb, chroma_db, vectordb, lifecycle, cached, firstRun, last>>

-----------------------------------------------------------------------------
(* Bounds of the model and constants of the program *)

MaxIndexSize == 4      \* builds are explored while the collection fits
MaxK == 3              \* direct queries ask for k in 1..MaxK

chunk_size == 1000
chunk_overlap == 200
AppK == 3
TestK == 2

PersistDirectory == "./chroma_db"
ModelName == "all-MiniLM-L6-v2"
Separator == "\n\n---\n\n"
TestQuery == "How do I handle a post-merger integration?"

\* The retrievers: the app's cached singleton and two constructed directly.
Rag == "rag"
Clients == {"r1", "r2"}
Instances == Clients \cup {Rag}

\* self.vectordb = None.  A handle is a record, and so is None, so that the
\* two compare.
None == [persist_directory |-> "", embedding_function |-> ""]

FileNames == <<"gap_analysis.txt", "raci.txt">>
DocLengths == {0, 900, 1800}
Queries == {"RACI roles", "post-merger integration"}

\* What a *.txt file of the knowledge base can be.
FileStates ==
    {[kind |-> "missing", length |-> 0], [kind |-> "binary", length |-> 0]}
        \cup {[kind |-> "text", length |-> n] : n \in DocLengths}

KnowledgeBases ==
    {[exists |-> FALSE,
      files |-> [i \in DOMAIN FileNames |-> [kind |-> "missing", length |-> 0]]]}
        \cup {[exists |-> TRUE, files |-> f] :
                f \in [DOMAIN FileNames -> FileStates]}

-----------------------------------------------------------------------------
(* Loading and splitting *)

Min(a, b) == IF a < b THEN a ELSE b

\* DirectoryLoader(...).load(): the text files, in name order.
RECURSIVE LoadFrom(_, _)
LoadFrom(dir, i) ==
    IF i > Len(FileNames) THEN <<>>
    ELSE (IF dir.files[i].kind = "text"
            THEN <<[source |-> FileNames[i], length |-> dir.files[i].length]>>
            ELSE <<>>) \o LoadFrom(dir, i + 1)

\* The loader's outcome: a missing directory and an undecodable file raise.
DirectoryLoad(dir) ==
    IF ~dir.exists THEN [status |-> "LoadError", documents |-> <<>>]
    ELSE IF \E i \in DOMAIN FileNames : dir.files[i].kind = "binary"
        THEN [status |-> "EncodingError", documents |-> <<>>]
    ELSE [status |-> "ok", documents |-> LoadFrom(dir, 1)]

\* The text of the characters [lo, hi) of a document.
PageContent(source, lo, hi) ==
    source \o "[" \o ToString(lo) \o ":" \o ToString(hi) \o "]"

\* RecursiveCharacterTextSplitter on one document: windows of chunk_size
\* characters, each starting chunk_overlap before the end of the one before.
RECURSIVE SplitText(_, _)
SplitText(doc, lo) ==
    IF doc.length = 0 THEN <<>>
    ELSE LET hi == Min(lo + chunk_size, doc.length)
             chunk == [page_content |-> PageContent(doc.source, lo, hi),
                       source |-> doc.source]
         IN IF hi = doc.length THEN <<chunk>>
            ELSE <<chunk>> \o SplitText(doc, lo + chunk_size - chunk_overlap)

RECURSIVE split_documents(_)
split_documents(documents) ==
    IF documents = <<>> THEN <<>>
    ELSE SplitText(Head(documents), 0) \o split_documents(Tail(documents))

-----------------------------------------------------------------------------
(* Embedding and similarity search *)

\* The embedding model: a deterministic function of the text alone.
embed(model, text) ==
    IF model = ModelName THEN (Len(text) * Len(text)) % 29 ELSE 0

Distance(a, b) == (a - b) * (a - b)

\* The collection stored in a directory, db being what ./chroma_db holds.
Collection(dir, db) ==
    IF dir = PersistDirectory THEN db
    ELSE [status |-> "absent", docs |-> <<>>]

\* The position of the entry nearest to e; the earliest one on a tie.
Nearest(entries, e) ==
    CHOOSE i \in DOMAIN entries :
        \A j \in DOMAIN entries :
            \/ Distance(entries[i].embedding, e) < Distance(entries[j].embedding, e)
            \/ /\ Distance(entries[i].embedding, e) = Distance(entries[j].embedding, e)
               /\ i <= j

Without(entries, i) ==
    SubSeq(entries, 1, i - 1) \o SubSeq(entries, i + 1, Len(entries))

\* A faulty search: the first k + 1 entries as stored, unranked.
TopK_tooMany(entries, e, k) == SubSeq(entries, 1, Min(k + 1, Len(entries)))

RECURSIVE TopK(_, _, _)
TopK(entries, e, k) ==
    IF k = 0 \/ entries = <<>> THEN <<>>
    ELSE LET i == Nearest(entries, e)
         IN <<entries[i]>> \o TopK(Without(entries, i), e, k - 1)

\* vectordb.similarity_search(query, k=k)
similarity_search(handle, db, query, k) ==
    TopK(Collection(handle.persist_directory, db).docs,
         embed(handle.embedding_function, query), k)

\* separator.join([doc.page_content for doc in relevant_docs])
RECURSIVE Join(_)
Join(docs) ==
    IF docs = <<>> THEN ""
    ELSE IF Len(docs) = 1 THEN docs[1].page_content
    ELSE docs[1].page_content \o Separator \o Join(Tail(docs))

-----------------------------------------------------------------------------
(* The retriever's three methods, as functions of what they read *)

Handle == [persist_directory |-> PersistDirectory, embedding_function |-> ModelName]

Entry(chunk) ==
    [page_content |-> chunk.page_content, source |-> chunk.source,
     embedding |-> embed(ModelName, chunk.page_content)]

RECURSIVE Entries(_)
Entries(chunks) ==
    IF chunks = <<>> THEN <<>>
    ELSE <<Entry(Head(chunks))>> \o Entries(Tail(chunks))

\* Chroma.from_documents(documents=chunks, persist_directory="./chroma_db"):
\* opens (or creates) the collection and adds the chunks to what it holds.
\* Adding no chunk at all is refused by some versions of the store and
\* accepted by others: emptyAdd is the outcome of that case.
from_documents(chunks, db, emptyAdd) ==
    IF db.status = "unreadable"
        THEN [status |-> "StoreError", db |-> db, vectordb |-> None]
    ELSE IF chunks = <<>> /\ emptyAdd = "refused"
        THEN [status |-> "ValueError",
              db |-> [status |-> "valid", docs |-> db.docs],
              vectordb |-> None]
    ELSE [status |-> "ok",
          db |-> [status |-> "valid", docs |-> db.docs \o Entries(chunks)],
          vectordb |-> Handle]

\* build_knowledge_base: load, split, store.  vectordb is the new value of
\* self.vectordb, None when the method raised before assigning it.
Build(dir, db, emptyAdd) ==
    LET loaded == DirectoryLoad(dir)
    IN IF loaded.status # "ok"
         THEN [status |-> loaded.status, db |-> db, vectordb |-> None]
         ELSE from_documents(split_documents(loaded.documents), db, emptyAdd)

\* A faulty load: it opens a directory other than the one build writes.
Load_otherDirectory(db) ==
    [status |-> "ok", db |-> db,
     vectordb |-> [persist_directory |-> "./chroma",
                   embedding_function |-> ModelName]]

\* load_existing_db: Chroma(persist_directory="./chroma_db", ...).  The
\* constructor creates the directory and an empty collection when there is
\* none; it raises only on a directory it cannot read.
Load(db) ==
    IF db.status = "unreadable"
        THEN [status |-> "StoreError", db |-> db, vectordb |-> None]
        ELSE [status |-> "ok",
              db |-> [status |-> "valid", docs |-> db.docs],
              vectordb |-> Handle]

\* A faulty query: the check of self.vectordb is missing.
Retrieve_unguarded(handle, db, query, k) ==
    LET relevant_docs == similarity_search(handle, db, query, k)
    IN [status |-> "ok", docs |-> relevant_docs,
        context |-> Join(relevant_docs), searches |-> 1]

\* get_relevant_frameworks(query, k)
Retrieve(handle, db, query, k) ==
    IF handle = None
        THEN [status |-> "NotReady", docs |-> <<>>, context |-> "",
              searches |-> 0]
        ELSE LET relevant_docs == similarity_search(handle, db, query, k)
             IN [status |-> "ok", docs |-> relevant_docs,
                 context |-> Join(relevant_docs), searches |-> 1]

\* What the attempts on a retriever have come to: a success is remembered,
\* a failure is recorded only on a retriever that never succeeded.
After(was, op, status) ==
    IF status = "ok" THEN op
    ELSE IF was = "fresh" THEN "failed" ELSE was

Ready(r) == lifecycle[r] \in {"build", "load"}

NoPrompt ==
    [frameworks |-> "", engagement_type |-> "", industry |-> "",
     challenge |-> "", constraints |-> ""]

\* The record of an operation; each action fills in what applies to it.
Op(name, r, status) ==
    [op |-> name, r |-> r, status |-> status, query |-> "", k |-> 0,
     docs |-> <<>>, context |-> "", searches |-> 0, calls |-> <<>>,
     challenge |-> "", prompt |-> NoPrompt, error |-> ""]

-----------------------------------------------------------------------------
(* The initial state: nothing is built, the store directory is either not *)
(* there yet or is there and cannot be opened.                            *)

Init ==
    /\ kb \in KnowledgeBases
    /\ chroma_db \in {[status |-> s, docs |-> <<>>] : s \in {"absent", "unreadable"}}
    /\ vectordb = [r \in Instances |-> None]
    /\ lifecycle = [r \in Instances |-> "fresh"]
    /\ cached = FALSE
    /\ firstRun = [done |-> FALSE, context |-> ""]
    /\ last = Op("init", "", "ok")

-----------------------------------------------------------------------------
(* ConsultingRAG's methods, called on one of the directly built retrievers *)

build_knowledge_base(r) ==
    \E emptyAdd \in {"refused", "accepted"} :
        LET b == Build(kb, chroma_db, emptyAdd)
        IN /\ Len(b.db.docs) <= MaxIndexSize
           /\ chroma_db' = b.db
           /\ vectordb' = [vectordb EXCEPT ![r] =
                               IF b.status = "ok" THEN b.vectordb ELSE @]
           /\ lifecycle' = [lifecycle EXCEPT ![r] = After(@, "build", b.status)]
           /\ last' = Op("build_knowledge_base", r, b.status)
           /\ UNCHANGED <<kb, cached, firstRun>>

load_existing_db(r) ==
    LET l == Load(chroma_db)
    IN /\ chroma_db' = l.db
       /\ vectordb' = [vectordb EXCEPT ![r] =
                           IF l.status = "ok" THEN l.vectordb ELSE @]
       /\ lifecycle' = [lifecycle EXCEPT ![r] = After(@, "load", l.status)]
       /\ last' = Op("load_existing_db", r, l.status)
       /\ UNCHANGED <<kb, cached, firstRun>>

\* A faulty query: it opens the store itself when self.vectordb is None.
get_relevant_frameworks_lazy(r, query, k) ==
    LET l == Load(chroma_db)
        h == IF vectordb[r] = None THEN l.vectordb ELSE vectordb[r]
        res == Retrieve(h, chroma_db, query, k)
    IN /\ chroma_db' = IF vectordb[r] = None THEN l.db ELSE chroma_db
       /\ vectordb' = [vectordb EXCEPT ![r] = h]
       /\ last' = [Op("get_relevant_frameworks", r, res.status) EXCEPT
                       !.query = query, !.k = k, !.docs = res.docs,
                       !.context = res.context, !.searches = res.searches]
       /\ UNCHANGED <<kb, lifecycle, cached, firstRun>>

get_relevant_frameworks(r, query, k) ==
    LET res == Retrieve(vectordb[r], chroma_db, query, k)
    IN /\ last' = [Op("get_relevant_frameworks", r, res.status) EXCEPT
                       !.query = query, !.k = k, !.docs = res.docs,
                       !.context = res.context, !.searches = res.searches]
       /\ UNCHANGED <<kb, chroma_db, vectordb, lifecycle, cached, firstRun>>

-----------------------------------------------------------------------------
(* app.py *)

\* load_rag_system, run by the first script run and cached by
\* st.cache_resource once it has returned: load, and build if load raised.
load_rag_system ==
    /\ ~cached
    /\ \E emptyAdd \in {"refused", "accepted"} :
        LET l == Load(chroma_db)
            b == Build(kb, l.db, emptyAdd)
            out == IF l.status = "ok" THEN l ELSE b
            calls == IF l.status = "ok"
                        THEN <<"load_existing_db">>
                        ELSE <<"load_existing_db", "build_knowledge_base">>
        IN /\ Len(out.db.docs) <= MaxIndexSize
           /\ chroma_db' = out.db
           /\ vectordb' = [vectordb EXCEPT ![Rag] = out.vectordb]
           /\ lifecycle' = [lifecycle EXCEPT ![Rag] =
                                IF l.status = "ok" THEN "load"
                                ELSE After(@, "build", b.status)]
           /\ cached' = (out.status = "ok")
           /\ last' = [Op("load_rag_system", Rag, out.status) EXCEPT
                           !.calls = calls]
           /\ UNCHANGED <<kb, firstRun>>

EngagementTypes == {"M&A Integration"}
Industries == {"", "E-commerce"}
Challenges == {"", "Scale operations 3x"}
Constraints == {""}

\* A faulty handler: the empty challenge is let through.
ChallengeMissing_never(challenge) == FALSE

\* if not challenge:
ChallengeMissing(challenge) == challenge = ""

\* query = f"{engagement_type}: {industry} - {challenge}"
RagQuery(engagement_type, industry, challenge) ==
    engagement_type \o ": " \o industry \o " - " \o challenge

\* The slots of the user_prompt template.
UserPrompt(relevant_frameworks, engagement_type, industry, challenge, constraints) ==
    [frameworks |-> relevant_frameworks, engagement_type |-> engagement_type,
     industry |-> industry, challenge |-> challenge,
     constraints |-> IF constraints = "" THEN "None specified" ELSE constraints]

\* A faulty call: a failed request is sent a second time.
MessagesCreate_retry(service) ==
    IF service = "ok"
        THEN [status |-> "ok", calls |-> <<"messages.create">>]
        ELSE [status |-> "ServiceError",
              calls |-> <<"messages.create", "messages.create">>]

\* anthropic.messages.create(...): one request, which the service answers
\* or fails; an exception leaves the handler.
MessagesCreate(service) ==
    [status |-> IF service = "ok" THEN "ok" ELSE "ServiceError",
     calls |-> <<"messages.create">>]

\* if st.button("Generate Strategy Brief"): ... in a script run that found
\* the retriever in the cache.
GenerateStrategyBrief(engagement_type, industry, challenge, constraints, service) ==
    /\ cached
    /\ IF ChallengeMissing(challenge)
         THEN last' = [Op("generate", Rag, "rejected") EXCEPT
                           !.challenge = challenge,
                           !.error = "Please describe the challenge before generating a brief."]
         ELSE LET query == RagQuery(engagement_type, industry, challenge)
                  res == Retrieve(vectordb[Rag], chroma_db, query, AppK)
                  gen == MessagesCreate(service)
              IN last' = [Op("generate", Rag,
                             IF res.status = "ok" THEN gen.status ELSE res.status)
                          EXCEPT
                           !.challenge = challenge, !.query = query, !.k = AppK,
                           !.docs = res.docs, !.context = res.context,
                           !.searches = res.searches,
                           !.calls = <<"get_relevant_frameworks">> \o
                                        (IF res.status = "ok" THEN gen.calls ELSE <<>>),
                           !.prompt = IF res.status = "ok"
                                        THEN UserPrompt(res.context, engagement_type,
                                                        industry, challenge, constraints)
                                        ELSE NoPrompt]
    /\ UNCHANGED <<kb, chroma_db, vectordb, lifecycle, cached, firstRun>>

-----------------------------------------------------------------------------
(* rag_system.py run as a script *)

\* test_rag: a retriever of its own, one build, one query with k = 2.
test_rag ==
    \E emptyAdd \in {"refused", "accepted"} :
        LET b == Build(kb, chroma_db, emptyAdd)
            res == Retrieve(b.vectordb, b.db, TestQuery, TestK)
        IN /\ Len(b.db.docs) <= MaxIndexSize
           /\ chroma_db' = b.db
           /\ IF b.status = "ok"
                THEN /\ last' = [Op("test_rag", "", res.status) EXCEPT
                                   !.query = TestQuery, !.k = TestK,
                                   !.docs = res.docs, !.context = res.context,
                                   !.searches = res.searches]
                     /\ firstRun' = IF firstRun.done THEN firstRun
                                    ELSE [done |-> TRUE, context |-> res.context]
                ELSE /\ last' = Op("test_rag", "", b.status)
                     /\ UNCHANGED firstRun
           /\ UNCHANGED <<kb, vectordb, lifecycle, cached>>

-----------------------------------------------------------------------------

Next ==
    \/ \E r \in Clients : build_knowledge_base(r)
    \/ \E r \in Clients : load_existing_db(r)
    \/ \E r \in Clients, query \in Queries, k \in 1..MaxK :
           get_relevant_frameworks(r, query, k)
    \/ load_rag_system
    \/ \E engagement_type \in EngagementTypes, industry \in Industries,
          challenge \in Challenges, constraints \in Constraints,
          service \in {"ok", "error"} :
           GenerateStrategyBrief(engagement_type, industry, challenge,
                                 constraints, service)
    \/ test_rag

Spec == Init /\ [][Next]_vars

-----------------------------------------------------------------------------
(* Properties *)

IsQuery == last.op = "get_relevant_frameworks"

\* The chunks a build of the knowledge base as it is now would store.
KnowledgeBaseChunks == split_documents(DirectoryLoad(kb).documents)

RECURSIVE PageContents(_)
PageContents(entries) ==
    IF entries = <<>> THEN <<>>
    ELSE <<Head(entries).page_content>> \o PageContents(Tail(entries))

\* C1: a query fails with the not-ready error exactly when no build or load
\* on its retriever has completed (self.vectordb is None exactly then), and
\* the failing query runs no similarity search.
QueryNotReadyIffNeverInitialized ==
    /\ \A r \in Instances : (vectordb[r] = None) <=> ~Ready(r)
    /\ IsQuery =>
        /\ (last.status = "NotReady") <=> ~Ready(last.r)
        /\ last.status = "NotReady" => last.searches = 0 /\ last.docs = <<>>
        /\ last.status # "NotReady" => last.status = "ok" /\ last.searches = 1

\* C1 witness: a query has failed on a retriever whose only attempts failed.
FailedRetrieverQueried ==
    IsQuery /\ last.status = "NotReady" /\ lifecycle[last.r] = "failed"

\* C2 (as claimed): load on a location with no persisted index fails and
\* leaves the retriever not ready; load on a persisted index makes the
\* retriever ready and leaves the index as it was.
LoadFailsWithoutPersistedIndex ==
    [][last'.op = "load_existing_db" =>
          /\ chroma_db.status = "absent" =>
                last'.status # "ok" /\ vectordb'[last'.r] = None
          /\ chroma_db.status = "valid" =>
                last'.status = "ok" /\ vectordb'[last'.r] # None
                    /\ chroma_db' = chroma_db]_vars

\* C3 (as claimed): after a successful build the index holds exactly the
\* chunks of the documents that build read, each once.
BuildReplacesIndex ==
    (last.op = "build_knowledge_base" /\ last.status = "ok") =>
        PageContents(chroma_db.docs) = PageContents(KnowledgeBaseChunks)

\* C4: a successful query returns at most k chunks, each an entry of the
\* index, nearest first, and its context is their texts joined in that order.
QueryReturnsNearestOfIndex ==
    (IsQuery /\ last.status = "ok") =>
        LET e == embed(ModelName, last.query)
        IN /\ Len(last.docs) <= last.k
           /\ \A i \in DOMAIN last.docs :
                \E j \in DOMAIN chroma_db.docs : chroma_db.docs[j] = last.docs[i]
           /\ \A i, j \in DOMAIN last.docs :
                i < j => Distance(last.docs[i].embedding, e)
                            <= Distance(last.docs[j].embedding, e)
           /\ last.context = Join(last.docs)

\* C4 witness: a query for k >= 2 chunks on an index that holds more than k.
QueryCutToK ==
    /\ IsQuery /\ last.status = "ok"
    /\ last.k >= 2 /\ Len(last.docs) = last.k
    /\ Len(chroma_db.docs) > last.k

QueryIsReadOnly ==
    [][/\ last'.op = "get_relevant_frameworks" =>
            UNCHANGED <<chroma_db, vectordb, kb>>
       /\ (chroma_db' # chroma_db \/ vectordb' # vectordb) =>
            last'.op \in {"build_knowledge_base", "load_existing_db",
                          "load_rag_system", "test_rag"}]_vars

\* C6 witness: a query has failed and there is still no index directory.
FailedQueryLeftNoIndex ==
    IsQuery /\ last.status = "NotReady" /\ chroma_db.status = "absent"

\* C7 (as claimed): every run of build-then-query prints what the first did.
RunsAgree ==
    (last.op = "test_rag" /\ last.status = "ok") =>
        last.context = firstRun.context

EmptyChallengeRejected ==
    [][(last'.op = "generate" /\ last'.challenge = "") =>
          /\ last'.status = "rejected"
          /\ last'.error # ""
          /\ last'.calls = <<>> /\ last'.searches = 0
          /\ UNCHANGED <<chroma_db, vectordb>>]_vars

\* C9 witness: a Generate has been rejected.
GenerateRejected ==
    last.op = "generate" /\ last.status = "rejected" /\ last.challenge = ""

\* C10 (as claimed): a startup that returned left a ready retriever whose
\* index holds the chunks of the knowledge base.
StartupIndexHoldsKnowledgeBase ==
    (last.op = "load_rag_system" /\ last.status = "ok") =>
        /\ cached /\ vectordb[Rag] # None
        /\ DirectoryLoad(kb).status = "ok"
        /\ \A i \in DOMAIN KnowledgeBaseChunks :
              \E j \in DOMAIN chroma_db.docs :
                  chroma_db.docs[j].page_content = KnowledgeBaseChunks[i].page_content

====
